---- MODULE Spec2Model ----
(***************************************************************************)
(* A model of clients/python/ptoclient.py: the provenance crawler          *)
(* (Provenance._iterate, _retrieve_provenance) and the query client        *)
(* (PTOQuery, PTOClient.submit_query / retrieve_query).                    *)
(***************************************************************************)
EXTENDS Integers, Sequences, FiniteSets, TLC

\* ------------------------------------------------------------------ bounds
\* total number of antecedent links (_sources entries and _analyzer values)
\* the observatory serves over all resources
MaxLinks == 4
\* number of fetch failures the environment produces during one traversal
MaxErrors == 2

\* number of GETs a traversal is followed for; no traversal of the link
\* graphs above comes near it
FetchCap == MaxLinks * MaxLinks + MaxErrors + 1

\* number of result rows the query's result holds over all its pages
MaxRows == 2
\* number of result pages of the query
MaxPages == 2
\* number of metadata() / results() calls made on the query object
MaxCalls == 2
\* number of calls made on one PTOQuerySpec object
MaxBuilderCalls == 3

\* ------------------------------------------------------------ common values
\* Python's None, where the other values are strings
None == "None"
\* Python's None, where the other values are URLs, JSON objects or data
\* frames
Nothing == <<>>
Some(x) == <<x>>

\* ------------------------------------------------------------------- URLs
\* a URL is <<authority, path>>
SameOrigin == {<<"pto", "a">>, <<"pto", "b">>, <<"pto", "c">>,
               <<"pto", "d">>}
CrossOrigin == {<<"ext", "x">>}
URLs == SameOrigin \cup CrossOrigin
\* the URL the Provenance object is constructed with
Seed == <<"pto", "a">>

\* urllib.parse.urlparse(u).netloc
Netloc(u) == u[1]

VARIABLES
    \* ---- the observatory's provenance metadata (environment)
    links,      \* URL -> [sources: Seq(URL), analyzer: URL or Nothing]
    \* ---- Provenance object and the locals of _iterate
    ppc,        \* "setup": not constructed; "iterate": in the while loop; "done"
    netloc,     \* self._netloc
    edges,      \* self._edges: a dict, here a function on the keys
    errors,     \* self._errors
    url,        \* local url of _iterate
    urlq,       \* local urlq of _iterate (deque)
    fetched     \* every URL _retrieve_provenance issued a GET for, in order

VARIABLES
    \* ---- the observatory's view of the query (environment)
    srv_done,    \* the query has completed: its metadata holds "__result"
    srv_kind,    \* the key of the result pages: "obs", "sets" or "groups"
    srv_pages,   \* the result pages, each a sequence of rows; page i has
                 \* a "next" link to page i+1 iff it is not the last
    \* ---- the PTOQuery object
    qst,         \* "none": not constructed; "valid": the caller holds it;
                 \* "failed": construction raised, there is no object
    q_url,       \* self._url
    q_metadata,  \* self._metadata
    q_results,   \* self._results
    \* ---- bookkeeping
    ncalls,      \* number of metadata() / results() calls made
    submitted,   \* the response to the submission POST, once made
    last         \* the last client call: inputs, requests issued, outcome

VARIABLES
    \* ---- the PTOQuerySpec object
    qspec,       \* its fields, without the leading underscore
    \* ---- bookkeeping
    bcall,       \* the last call on the spec: inputs, spec before, outcome
    nbuilder     \* number of calls made on the spec

pvars == <<links, ppc, netloc, edges, errors, url, urlq, fetched>>
qvars == <<srv_done, srv_kind, srv_pages, qst, q_url, q_metadata, q_results,
           ncalls, submitted, last>>
bvars == <<qspec, bcall, nbuilder>>
vars == <<links, ppc, netloc, edges, errors, url, urlq, fetched,
          srv_done, srv_kind, srv_pages, qst, q_url, q_metadata, q_results,
          ncalls, submitted, last, qspec, bcall, nbuilder>>

\* ------------------------------------------------------------ provenance
NoLinks == [u \in URLs |-> [sources |-> <<>>, analyzer |-> Nothing]]

\* number of links a resource's metadata holds
LinkCount(j) == Len(j.sources) + (IF j.analyzer = Nothing THEN 0 ELSE 1)

RECURSIVE SumLinks(_, _)
SumLinks(l, S) ==
    IF S = {} THEN 0
    ELSE LET u == CHOOSE x \in S : TRUE
         IN LinkCount(l[u]) + SumLinks(l, S \ {u})

\* the body of _retrieve_provenance after a 200 response:
\* p = j["_sources"] (if present) followed by j["_analyzer"] (if present)
RetrieveProvenance(j) ==
    j.sources \o (IF j.analyzer = Nothing THEN <<>> ELSE <<j.analyzer>>)

Range(f) == {f[i] : i \in DOMAIN f}

\* the link graph the observatory serves
Antecedents(u) == Range(RetrieveProvenance(links[u]))

\* the URLs reachable from S along derives-from links that avoid `avoid`
RECURSIVE ReachFrom(_, _)
ReachFrom(S, avoid) ==
    LET T == S \cup {v \in URLs \ avoid : \E u \in S : v \in Antecedents(u)}
    IN IF T = S THEN S ELSE ReachFrom(T, avoid)

\* the antecedents the for loop appends to urlq
EnqueueKnownToo(p, e, nl) ==
    SelectSeq(p, LAMBDA u : Netloc(u) = nl)

EnqueueNoBoundary(p, e, nl) ==
    SelectSeq(p, LAMBDA u : u \notin DOMAIN e)

Enqueue(p, e, nl) ==
    SelectSeq(p, LAMBDA u : u \notin DOMAIN e /\ Netloc(u) = nl)

\* self._edges[url] = p, when len(p) > 0
RecordEdgesAlways(e, u, p) ==
    [k \in DOMAIN e \cup {u} |-> IF k = u THEN p ELSE e[k]]

RecordEdgesSameOrigin(e, u, p) ==
    LET q == SelectSeq(p, LAMBDA x : Netloc(x) = Netloc(u))
    IN IF Len(q) > 0
       THEN [k \in DOMAIN e \cup {u} |-> IF k = u THEN q ELSE e[k]]
       ELSE e

RecordEdges(e, u, p) ==
    IF Len(p) > 0
    THEN [k \in DOMAIN e \cup {u} |-> IF k = u THEN p ELSE e[k]]
    ELSE e

ProvenanceIdle ==
    /\ links = NoLinks
    /\ ppc = "setup"
    /\ netloc = None
    /\ edges = <<>>
    /\ errors = <<>>
    /\ url = Nothing
    /\ urlq = <<>>
    /\ fetched = <<>>

\* the same-origin URLs in the order in which the link graph first names them
NodeOrder == <<<<"pto", "a">>, <<"pto", "b">>, <<"pto", "c">>, <<"pto", "d">>>>

\* the URLs a new link may name: those the seed already leads to, the
\* cross-origin ones, and the first same-origin URL not yet named (which of
\* the unnamed URLs comes first is immaterial)
LinkTargets ==
    LET R == ReachFrom({Seed}, {})
    IN R \cup CrossOrigin
         \cup {NodeOrder[i] : i \in {k \in DOMAIN NodeOrder :
                                     /\ NodeOrder[k] \notin R
                                     /\ \A m \in 1..(k - 1) : NodeOrder[m] \in R}}

\* the observatory holds one more _sources entry for resource n. Only the
\* resources the seed leads to are given links: the metadata of the others
\* is never asked for.
ServerAddSource ==
    /\ ppc = "setup"
    /\ SumLinks(links, URLs) < MaxLinks
    /\ \E n \in SameOrigin \cap ReachFrom({Seed}, {}), u \in LinkTargets :
         links' = [links EXCEPT ![n].sources = Append(@, u)]
    /\ UNCHANGED <<ppc, netloc, edges, errors, url, urlq, fetched>>
    /\ UNCHANGED <<qvars, bvars>>

\* the observatory holds an _analyzer for resource n
ServerSetAnalyzer ==
    /\ ppc = "setup"
    /\ SumLinks(links, URLs) < MaxLinks
    /\ \E n \in SameOrigin \cap ReachFrom({Seed}, {}), u \in LinkTargets :
         /\ links[n].analyzer = Nothing
         /\ links' = [links EXCEPT ![n].analyzer = u]
    /\ UNCHANGED <<ppc, netloc, edges, errors, url, urlq, fetched>>
    /\ UNCHANGED <<qvars, bvars>>

\* Provenance.__init__ up to the first statement of the loop of _iterate
ProvenanceInit ==
    /\ ppc = "setup"
    /\ ppc' = "iterate"
    /\ netloc' = Netloc(Seed)
    /\ edges' = <<>>
    /\ errors' = <<>>
    /\ url' = Seed
    /\ urlq' = <<>>
    /\ UNCHANGED <<links, fetched>>
    /\ UNCHANGED <<qvars, bvars>>

\* one pass of the while loop in which _retrieve_provenance raises
IterateFail ==
    /\ ppc = "iterate"
    /\ Len(errors) < MaxErrors
    /\ fetched' = Append(fetched, url)
    /\ errors' = Append(errors, url)
    \* continue: back to the top of the loop, url and urlq as they are
    /\ UNCHANGED <<links, ppc, netloc, edges, url, urlq>>
    /\ UNCHANGED <<qvars, bvars>>

\* one pass of the while loop in which _retrieve_provenance returns p
IterateOk ==
    /\ ppc = "iterate"
    /\ Len(fetched) < FetchCap
    /\ LET p == RetrieveProvenance(links[url])
           e == RecordEdges(edges, url, p)
           q == urlq \o Enqueue(p, e, netloc)
       IN /\ fetched' = Append(fetched, url)
          /\ edges' = e
          /\ IF Len(q) = 0
             THEN /\ ppc' = "done"
                  /\ UNCHANGED url
                  /\ urlq' = q
             ELSE /\ url' = Head(q)
                  /\ urlq' = Tail(q)
                  /\ UNCHANGED ppc
    /\ UNCHANGED <<links, netloc, errors>>
    /\ UNCHANGED <<qvars, bvars>>

\* ------------------------------------------------------------------ query
\* the client's base URL, the submission endpoint self._url+"query/submit"
\* and the links the observatory assigns to queries
BaseURL == "https://pto/"
SubmitURL == "https://pto/query/submit"
QueryLinks == {"https://pto/query/q1"}
\* a query URL of another observatory
ForeignURL == "https://other/query/q1"

\* the non-200 responses of the observatory: status code and body text
\* and whether the body is JSON
ErrorResponses == {[status |-> 403, text |-> "{forbidden}", json |-> TRUE],
                   [status |-> 500, text |-> "<html>", json |-> FALSE]}
OkResponse == [status |-> 200, text |-> "{}", json |-> TRUE]

\* the rows a result page may hold under each key
Kinds == {"obs", "sets", "groups"}
RowsOf(kind) ==
    CASE kind = "obs" ->
           {<<"0", "s1", "t0", "t1", "/p", "c1", "5">>,
            <<"s1", "t0", "t1", "/p", "c1", "5">>}
      [] kind = "sets" ->
           {<<"https://pto/obs/2a">>, <<"https://pto/obs/2b">>}
      [] kind = "groups" ->
           {<<"US", "17">>, <<"US", "mobile", "17">>}

\* _parse_observation_result: Python's j[0] is the first element
ParseObservationResultSwapped(j) ==
    [set_id |-> j[1], time_start |-> j[2], time_end |-> j[3],
     path |-> j[5], condition |-> j[4], value |-> j[6]]

ParseObservationResult(j) ==
    [set_id |-> j[1], time_start |-> j[2], time_end |-> j[3],
     path |-> j[4], condition |-> j[5], value |-> j[6]]

\* _parse_set_result
ParseSetResult(j) == [set |-> j]

\* _parse_group_result, for the row lengths 2 and 3
ParseGroupResult(j) ==
    IF Len(j) = 2
    THEN [group |-> j[1], count |-> j[2]]
    ELSE [group0 |-> j[1], group1 |-> j[2], count |-> j[3]]

\* PTOQuery._reload_http_gen: the records of one page, in page order
ReloadHttpGen(kind, rows) ==
    [i \in 1..Len(rows) |->
        CASE kind = "obs" -> ParseObservationResult(rows[i])
          [] kind = "sets" -> ParseSetResult(rows[i])
          [] kind = "groups" -> ParseGroupResult(rows[i])]

\* requests.get / requests.post as the transport sees them; page is the
\* index of the result page asked for, 0 for any other resource
Request(method, u, page) == [method |-> method, url |-> u, page |-> page]

\* PTOError(status, text) and the other exceptions that escape
NoError == [type |-> "none", status |-> 0, text |-> ""]
PTOError(r) == [type |-> "PTOError", status |-> r.status, text |-> r.text]
OtherError(type) == [type |-> type, status |-> 0, text |-> ""]

\* the JSON object a 200 response to GET <query link> or to the submission
\* POST decodes to: "__link", and whether "__result" is present
MetadataJson(link, done) == [link |-> link, result |-> done]

\* _submit on a 200 response: self._url = self._metadata["__link"]
AdoptLinkKeepBase(base, json) == base

AdoptLink(base, json) == json.link

\* "__result" in m
HasResultAlways(m) == TRUE

HasResult(m) == m.result

\* PTOQuery.metadata: the new self._metadata (which is also what is
\* returned), the requests issued and the status of the GET (0: no GET)
MetadataCall(u, md, reload, status, fresh) ==
    IF md = Nothing \/ reload
    THEN [metadata |-> IF status = 200 THEN Some(fresh) ELSE md,
          reqs |-> <<Request("GET", u, 0)>>,
          status |-> status]
    ELSE [metadata |-> md, reqs |-> <<>>, status |-> 0]

\* the two branches that store a decoded page into self._results
AccumulateNewestFirst(acc, recs) ==
    IF acc = Nothing THEN Some(recs) ELSE Some(recs \o acc[1])

Accumulate(acc, recs) ==
    IF acc = Nothing THEN Some(recs) ELSE Some(acc[1] \o recs)

\* the while loop of PTOQuery.results from page i on; page f (0: none)
\* answers with a non-200 status
RECURSIVE PagingLoop(_, _, _, _, _)
PagingLoop(acc, i, f, kind, pages) ==
    IF i = f
    THEN [results |-> acc, raised |-> TRUE, asked |-> i]
    ELSE LET a == Accumulate(acc, ReloadHttpGen(kind, pages[i]))
         IN IF i < Len(pages)
            THEN PagingLoop(a, i + 1, f, kind, pages)
            ELSE [results |-> a, raised |-> FALSE, asked |-> i]

PageRequests(link, n) == [i \in 1..n |-> Request("GET", link, i)]

\* the sequences over S of length at most n
SeqsUpTo(S, n) == UNION {[1..k -> S] : k \in 0..n}

\* the ways to cut a sequence of length len into n consecutive pages
Cuts(len, n) ==
    {c \in [0..n -> 0..len] :
        /\ c[0] = 0
        /\ c[n] = len
        /\ \A i \in 1..n : c[i - 1] <= c[i]}

\* the result page chains of a query whose pages hold rows under key kind
PageChains(kind) ==
    {[i \in 1..n |-> SubSeq(flat, c[i - 1] + 1, c[i])] :
        <<flat, n, c>> \in
            {t \in SeqsUpTo(RowsOf(kind), MaxRows) \X (1..MaxPages)
                   \X UNION {[0..m -> 0..MaxRows] : m \in 1..MaxPages} :
                t[3] \in Cuts(Len(t[1]), t[2])}}

NoCall == [op |-> "none", reload |-> FALSE, fresh |-> FALSE, out |-> "none",
           value |-> Nothing, err |-> NoError, reqs |-> <<>>, mstatus |-> 0,
           fail |-> -1]

QueryIdle ==
    /\ srv_done = FALSE
    /\ srv_kind = "obs"
    /\ srv_pages = <<<<>>>>
    /\ qst = "none"
    /\ q_url = None
    /\ q_metadata = Nothing
    /\ q_results = Nothing
    /\ ncalls = 0
    /\ submitted = Nothing
    /\ last = NoCall

\* the observatory finishes the query: from now on its metadata holds the
\* result link. A completed query stays completed.
ServerCompletes ==
    /\ ~srv_done
    /\ srv_done' = TRUE
    /\ UNCHANGED <<srv_kind, srv_pages, qst, q_url, q_metadata, q_results,
                   ncalls, submitted, last>>
    /\ UNCHANGED <<pvars, bvars>>

\* PTOClient.submit_query: PTOQuery(baseurl, token, spec) -> _submit, then
\* q.metadata()
SubmitQuery ==
    /\ qst = "none"
    /\ \E r \in {OkResponse} \cup ErrorResponses, link \in QueryLinks :
         LET post == Request("POST", SubmitURL, 0)
             json == MetadataJson(link, srv_done)
         IN /\ submitted' = Some([status |-> r.status, text |-> r.text,
                                  link |-> link])
            /\ IF r.status = 200
               THEN LET c == MetadataCall(AdoptLink(BaseURL, json),
                                          Some(json), FALSE, 200, json)
                    IN /\ qst' = "valid"
                       /\ q_url' = AdoptLink(BaseURL, json)
                       /\ q_metadata' = c.metadata
                       /\ last' = [NoCall EXCEPT !.op = "submit",
                                      !.out = "return",
                                      !.value = c.metadata,
                                      !.reqs = <<post>> \o c.reqs,
                                      !.mstatus = c.status]
               ELSE /\ qst' = "failed"
                    /\ UNCHANGED <<q_url, q_metadata>>
                    /\ last' = [NoCall EXCEPT !.op = "submit",
                                   !.out = "raise",
                                   !.err = PTOError(r),
                                   !.reqs = <<post>>]
    /\ UNCHANGED <<srv_done, srv_kind, srv_pages, q_results, ncalls>>
    /\ UNCHANGED <<pvars, bvars>>

\* PTOClient.retrieve_query(url): PTOQuery(url, token), then q.metadata()
RetrieveQuery ==
    /\ qst = "none"
    /\ \E u \in QueryLinks \cup {ForeignURL}, status \in {200, 500} :
         IF u \notin QueryLinks
         THEN \* not url.startswith(self._baseurl)
              /\ qst' = "failed"
              /\ last' = [NoCall EXCEPT !.op = "retrieve", !.out = "raise",
                             !.err = OtherError("ValueError")]
              /\ UNCHANGED <<q_url, q_metadata>>
         ELSE LET c == MetadataCall(u, Nothing, FALSE, status,
                                    MetadataJson(u, srv_done))
              IN /\ qst' = "valid"
                 /\ q_url' = u
                 /\ q_metadata' = c.metadata
                 /\ last' = [NoCall EXCEPT !.op = "retrieve",
                                !.out = "return",
                                !.value = c.metadata,
                                !.reqs = c.reqs,
                                !.mstatus = c.status]
    /\ UNCHANGED <<srv_done, srv_kind, srv_pages, q_results, ncalls,
                   submitted>>
    /\ UNCHANGED <<pvars, bvars>>

\* PTOQuery.metadata(reload)
Metadata ==
    /\ qst = "valid"
    /\ ncalls < MaxCalls
    /\ \E reload \in BOOLEAN :
       \E status \in IF q_metadata = Nothing \/ reload
                     THEN {200, 500} ELSE {200} :
         LET c == MetadataCall(q_url, q_metadata, reload, status,
                               MetadataJson(q_url, srv_done))
         IN /\ q_metadata' = c.metadata
            /\ last' = [NoCall EXCEPT !.op = "metadata",
                           !.reload = reload,
                           !.out = "return",
                           !.value = c.metadata,
                           !.reqs = c.reqs,
                           !.mstatus = c.status]
    /\ ncalls' = ncalls + 1
    /\ UNCHANGED <<srv_done, srv_kind, srv_pages, qst, q_url, q_results,
                   submitted>>
    /\ UNCHANGED <<pvars, bvars>>

\* PTOQuery.results(reload). status answers the metadata GET; page f (0: no
\* page) answers with the error response er
Results ==
    /\ qst = "valid"
    /\ ncalls < MaxCalls
    /\ \E reload \in BOOLEAN :
         LET call == [NoCall EXCEPT !.op = "results", !.reload = reload,
                         !.fresh = (q_results = Nothing)]
         IN IF q_results # Nothing /\ ~reload
            THEN /\ last' = [call EXCEPT !.out = "return",
                                !.value = q_results]
                 /\ UNCHANGED <<q_metadata, q_results>>
            ELSE \E status \in IF q_metadata = Nothing \/ reload
                               THEN {200, 500} ELSE {200} :
                 LET c == MetadataCall(q_url, q_metadata, reload, status,
                              MetadataJson(q_url, srv_done))
                     m == c.metadata
                     got == [call EXCEPT !.reqs = c.reqs,
                                !.mstatus = c.status]
                 IN /\ q_metadata' = m
                    /\ IF m = Nothing
                       THEN \* "__result" not in None
                            /\ last' = [got EXCEPT !.out = "raise",
                                           !.err = OtherError("TypeError")]
                            /\ UNCHANGED q_results
                       ELSE IF ~HasResult(m[1])
                       THEN /\ last' = [got EXCEPT !.out = "return"]
                            /\ UNCHANGED q_results
                       ELSE \E f \in 0..Len(srv_pages) :
                            \E er \in IF f = 0 THEN {OkResponse}
                                      ELSE ErrorResponses :
                            LET loop == PagingLoop(q_results, 1, f,
                                                   srv_kind, srv_pages)
                                reqs == c.reqs \o
                                        PageRequests(m[1].link, loop.asked)
                            IN /\ q_results' = loop.results
                               /\ last' =
                                    IF loop.raised
                                    THEN [got EXCEPT !.out = "raise",
                                             !.reqs = reqs,
                                             !.fail = f,
                                             !.err =
                                               \* j = r.json() comes first
                                               IF er.json THEN PTOError(er)
                                               ELSE OtherError("JSONDecodeError")]
                                    ELSE [got EXCEPT !.out = "return",
                                             !.reqs = reqs,
                                             !.fail = f,
                                             !.value = loop.results]
    /\ ncalls' = ncalls + 1
    /\ UNCHANGED <<srv_done, srv_kind, srv_pages, qst, q_url, submitted>>
    /\ UNCHANGED <<pvars, bvars>>

\* ------------------------------------------------------------ query spec
\* A Python str is a sequence of one-character strings; a Python value handed
\* to the builder is tagged with its type.
PyInt(n) == <<"int", n>>
PyStr(s) == <<"str", s>>
PyDatetime(Y, M, D, h, m, s) == <<"datetime", Y, M, D, h, m, s>>
PyFloat == <<"float">>
IsInstance(v, t) == v[1] = t

HexDigits == <<"0", "1", "2", "3", "4", "5", "6", "7",
               "8", "9", "a", "b", "c", "d", "e", "f">>

\* the digits of n >= 0 in base b, most significant first
RECURSIVE Digits(_, _)
Digits(n, b) ==
    IF n < b THEN <<HexDigits[n + 1]>>
    ELSE Digits(n \div b, b) \o <<HexDigits[(n % b) + 1]>>

\* "{:x}".format(n)
FormatHex(n) == IF n < 0 THEN <<"-">> \o Digits(-n, 16) ELSE Digits(n, 16)

\* str(n) of an int
FormatDec(n) == IF n < 0 THEN <<"-">> \o Digits(-n, 10) ELSE Digits(n, 10)

\* the %Y, %m, %d, %H, %M, %S fields of strftime: zero padded to width w
RECURSIVE ZeroPad(_, _)
ZeroPad(s, w) == IF Len(s) >= w THEN s ELSE ZeroPad(<<"0">> \o s, w)

\* s.split("/")[-1]
SplitLast(s) ==
    LET slashes == {i \in DOMAIN s : s[i] = "/"}
        last_slash == IF slashes = {} THEN 0
                      ELSE CHOOSE i \in slashes : \A j \in slashes : j <= i
    IN SubSeq(s, last_slash + 1, Len(s))

\* str(v)
Str(v) == IF IsInstance(v, "int") THEN FormatDec(v[2]) ELSE v[2]

\* _as_time_query_string: [err, value]; an int raises ValueError, a datetime
\* is formatted as %Y-%m-%dT%H:%M:%SZ
AsTimeQueryString(v) ==
    IF IsInstance(v, "int")
    THEN [err |-> OtherError("ValueError"), value |-> Nothing]
    ELSE [err |-> NoError,
          value |-> Some(ZeroPad(FormatDec(v[2]), 4) \o <<"-">>
                         \o ZeroPad(FormatDec(v[3]), 2) \o <<"-">>
                         \o ZeroPad(FormatDec(v[4]), 2) \o <<"T">>
                         \o ZeroPad(FormatDec(v[5]), 2) \o <<":">>
                         \o ZeroPad(FormatDec(v[6]), 2) \o <<":">>
                         \o ZeroPad(FormatDec(v[7]), 2) \o <<"Z">>)]

\* PTOQuerySpec.__init__
NewQuerySpec ==
    [time_start |-> Nothing, time_end |-> Nothing, set_ids |-> <<>>,
     on_path |-> <<>>, sources |-> <<>>, targets |-> <<>>,
     conditions |-> <<>>, group |-> <<>>, options |-> <<>>]

\* the values the caller hands to the builder
Url2a == <<"h", "t", "t", "p", "s", ":", "/", "/", "x", "/",
           "o", "b", "s", "/", "2", "a">>
SetIdArgs == {<<PyInt(42)>>, <<PyStr(Url2a)>>,
              <<PyStr(<<"f", "f">>), PyInt(255)>>, <<PyInt(0), PyFloat>>}
FilterArgs == {<<PyStr(<<"a">>)>>, <<PyInt(10), PyStr(<<"b">>)>>}
TimeArgs ==
    LET d1 == PyDatetime(2019, 1, 2, 3, 4, 5)
        d2 == PyDatetime(2020, 12, 31, 0, 0, 0)
    IN {<<d1, d2>>, <<PyInt(0), d2>>, <<d1, PyInt(0)>>}

\* the grouping methods and the tag each hands to _append_group
GroupTag ==
    [time_series_year |-> "year", time_series_month |-> "month",
     time_series_week |-> "week", time_series_day |-> "day",
     time_series_hour |-> "hour", group_by_day_of_week |-> "week_day",
     group_by_hour_of_day |-> "day_hour", group_by_condition |-> "condition",
     group_by_source |-> "source", group_by_target |-> "target"]

\* the loop of set_id over its arguments: [ids, err]. An argument that is
\* neither int nor str raises after the earlier ones were appended.
RECURSIVE SetIdLoop(_, _)
SetIdLoop(ids, args) ==
    IF args = <<>> THEN [ids |-> ids, err |-> NoError]
    ELSE LET v == Head(args) IN
         IF IsInstance(v, "int")
         THEN SetIdLoop(Append(ids, FormatHex(v[2])), Tail(args))
         ELSE IF IsInstance(v, "str")
         THEN SetIdLoop(Append(ids, SplitLast(v[2])), Tail(args))
         ELSE [ids |-> ids, err |-> OtherError("TypeError")]

\* the loop of on_path / source / target / condition over its arguments
RECURSIVE AppendStrs(_, _)
AppendStrs(list, args) ==
    IF args = <<>> THEN list
    ELSE AppendStrs(Append(list, Str(Head(args))), Tail(args))

AppendGroupUpToThree(q, gstr) ==
    IF Len(q.group) >= 3
    THEN [q |-> q, err |-> OtherError("ValueError")]
    ELSE [q |-> [q EXCEPT !.group = Append(@, gstr)], err |-> NoError]

\* _append_group: [q, err]
AppendGroup(q, gstr) ==
    IF Len(q.group) >= 2
    THEN [q |-> q, err |-> OtherError("ValueError")]
    ELSE [q |-> [q EXCEPT !.group = Append(@, gstr)], err |-> NoError]

CollectionKeys ==
    {"on_path", "source", "target", "condition", "group", "option"}

\* the collection of the spec behind a key of the parameter map
Backing(q, k) ==
    CASE k = "on_path" -> q.on_path
      [] k = "source" -> q.sources
      [] k = "target" -> q.targets
      [] k = "condition" -> q.conditions
      [] k = "group" -> q.group
      [] k = "option" -> q.options

ParamsAllKeys(q) ==
    [k \in {"time_start", "time_end"} \cup CollectionKeys |->
        CASE k = "time_start" -> q.time_start
          [] k = "time_end" -> q.time_end
          [] OTHER -> Backing(q, k)]

\* _params: the dict, as a function on its keys
Params(q) ==
    [k \in {"time_start", "time_end"}
           \cup {c \in CollectionKeys : Len(Backing(q, c)) # 0} |->
        CASE k = "time_start" -> q.time_start
          [] k = "time_end" -> q.time_end
          [] OTHER -> Backing(q, k)]

NoBuilderCall == [op |-> "none", args |-> <<>>, pre |-> NewQuerySpec,
                  ret |-> "none", out |-> Nothing, err |-> NoError]

\* one call on the spec object: what it was called with, the spec before
\* it, and whether it returned self, returned None, returned a dict or raised
BuilderCall(op, args, ret, out, err) ==
    /\ nbuilder < MaxBuilderCalls
    /\ nbuilder' = nbuilder + 1
    /\ bcall' = [op |-> op, args |-> args, pre |-> qspec,
                 ret |-> IF err = NoError THEN ret ELSE "raise",
                 out |-> out, err |-> err]
    /\ UNCHANGED <<pvars, qvars>>

BuilderIdle ==
    /\ qspec = NewQuerySpec
    /\ bcall = NoBuilderCall
    /\ nbuilder = 0

\* PTOQuerySpec.time
Time ==
    \E a \in TimeArgs :
        LET s == AsTimeQueryString(a[1])
            e == AsTimeQueryString(a[2])
        IN IF s.err # NoError
           THEN /\ UNCHANGED qspec
                /\ BuilderCall("time", a, "self", Nothing, s.err)
           ELSE IF e.err # NoError
           THEN /\ qspec' = [qspec EXCEPT !.time_start = s.value]
                /\ BuilderCall("time", a, "self", Nothing, e.err)
           ELSE /\ qspec' = [qspec EXCEPT !.time_start = s.value,
                                          !.time_end = e.value]
                /\ BuilderCall("time", a, "self", Nothing, NoError)

\* PTOQuerySpec.set_id
SetId ==
    \E a \in SetIdArgs :
        LET r == SetIdLoop(qspec.set_ids, a)
        IN /\ qspec' = [qspec EXCEPT !.set_ids = r.ids]
           /\ BuilderCall("set_id", a, "self", Nothing, r.err)

\* PTOQuerySpec.on_path
OnPath ==
    \E a \in FilterArgs :
        /\ qspec' = [qspec EXCEPT !.on_path = AppendStrs(@, a)]
        /\ BuilderCall("on_path", a, "self", Nothing, NoError)

\* PTOQuerySpec.source
Source ==
    \E a \in FilterArgs :
        /\ qspec' = [qspec EXCEPT !.sources = AppendStrs(@, a)]
        /\ BuilderCall("source", a, "self", Nothing, NoError)

\* PTOQuerySpec.target
Target ==
    \E a \in FilterArgs :
        /\ qspec' = [qspec EXCEPT !.targets = AppendStrs(@, a)]
        /\ BuilderCall("target", a, "self", Nothing, NoError)

\* PTOQuerySpec.condition
Condition ==
    \E a \in FilterArgs :
        /\ qspec' = [qspec EXCEPT !.conditions = AppendStrs(@, a)]
        /\ BuilderCall("condition", a, "self", Nothing, NoError)

\* PTOQuerySpec.time_series_* and group_by_*
GroupBy ==
    \E m \in DOMAIN GroupTag :
        LET r == AppendGroup(qspec, GroupTag[m])
        IN /\ qspec' = r.q
           /\ BuilderCall(m, <<>>, "self", Nothing, r.err)

\* PTOQuerySpec.count_unique_targets
CountUniqueTargets ==
    /\ qspec' = [qspec EXCEPT !.options = Append(@, "count_targets")]
    /\ BuilderCall("count_unique_targets", <<>>, "None", Nothing, NoError)

\* PTOQuerySpec.return_sets_only
ReturnSetsOnly ==
    /\ qspec' = [qspec EXCEPT !.options = Append(@, "sets_only")]
    /\ BuilderCall("return_sets_only", <<>>, "None", Nothing, NoError)

\* PTOQuerySpec._params, as PTOQuery._submit calls it
CallParams ==
    /\ UNCHANGED qspec
    /\ BuilderCall("_params", <<>>, "dict", Some(Params(qspec)), NoError)

InitQuery ==
    /\ ProvenanceIdle
    /\ BuilderIdle
    /\ srv_done = FALSE
    /\ srv_kind \in Kinds
    /\ srv_pages \in PageChains(srv_kind)
    /\ qst = "none"
    /\ q_url = None
    /\ q_metadata = Nothing
    /\ q_results = Nothing
    /\ ncalls = 0
    /\ submitted = Nothing
    /\ last = NoCall

NextQuery ==
    \/ ServerCompletes
    \/ SubmitQuery
    \/ RetrieveQuery
    \/ Metadata
    \/ Results

SpecQuery == InitQuery /\ [][NextQuery]_vars

InitProv ==
    /\ QueryIdle
    /\ BuilderIdle
    /\ ProvenanceIdle

NextProv ==
    \/ ServerAddSource
    \/ ServerSetAnalyzer
    \/ ProvenanceInit
    \/ IterateFail
    \/ IterateOk

SpecProv == InitProv /\ [][NextProv]_vars

\* the traversals in which every fetch succeeds. The loop of _iterate runs
\* on its own once the constructor is entered: nothing but the end of the
\* traversal stops it.
NextProvOk ==
    \/ ServerAddSource
    \/ ServerSetAnalyzer
    \/ ProvenanceInit
    \/ IterateOk

SpecProvOk == InitProv /\ [][NextProvOk]_vars /\ WF_vars(IterateOk)

InitBuilder ==
    /\ ProvenanceIdle
    /\ QueryIdle
    /\ BuilderIdle

NextBuilder ==
    \/ Time
    \/ SetId
    \/ OnPath
    \/ Source
    \/ Target
    \/ Condition
    \/ GroupBy
    \/ CountUniqueTargets
    \/ ReturnSetsOnly
    \/ CallParams

SpecBuilder == InitBuilder /\ [][NextBuilder]_vars

\* Provenance.as_nxgraph: one edge per (node, antecedent) pair
AsNxGraph(e) == UNION {{<<a, e[a][i]>> : i \in DOMAIN e[a]} : a \in DOMAIN e}

\* ================================================================ claims
\* the URLs reachable from the seed only through b
OnlyThrough(b) ==
    (ReachFrom({Seed}, {}) \ {b})
        \ (IF b = Seed THEN {} ELSE ReachFrom({Seed}, {b}))

\* ---- the records of the query's result pages, by position
RECURSIVE PageStart(_)
PageStart(i) == IF i <= 1 THEN 0 ELSE PageStart(i - 1) + Len(srv_pages[i - 1])

TotalRows == PageStart(Len(srv_pages) + 1)

ExpectedRecords ==
    [k \in 1..TotalRows |->
        LET p == CHOOSE p \in 1..Len(srv_pages) :
                     PageStart(p) < k /\ k <= PageStart(p) + Len(srv_pages[p])
        IN ReloadHttpGen(srv_kind, srv_pages[p])[k - PageStart(p)]]

\* the result pages the last call asked for, in order
PagesAsked == SelectSeq(last.reqs, LAMBDA r : r.page # 0)

\* C1: when the fetch of a node fails, its URL is appended to the error list
\* and the traversal goes on with the next URL of the frontier, or ends when
\* the frontier is empty; the failed URL is not fetched again.
C1_FailedNodeSkipped ==
    [][(ppc = "iterate" /\ errors' # errors)
         => /\ errors' = Append(errors, url)
            /\ IF urlq = <<>>
               THEN ppc' = "done"
               ELSE url' = Head(urlq) /\ urlq' = Tail(urlq)]_vars

\* C2: a results() call that starts without accumulated results, on a query
\* whose metadata has a result link and whose pages all answer 200, asks for
\* the pages first to last and returns their records in that order, each
\* page's records in page order, none dropped and none merged.
C2_PagesInOrder ==
    (last.op = "results" /\ last.fresh /\ q_metadata # Nothing
        /\ q_metadata[1].result)
      => /\ last.fail # -1
         /\ last.fail = 0 =>
              /\ last.out = "return"
              /\ last.value = Some(ExpectedRecords)
              /\ q_results = Some(ExpectedRecords)
              /\ PagesAsked = PageRequests(q_url, Len(srv_pages))

C2_Witness ==
    /\ last.op = "results" /\ last.fresh /\ last.fail = 0
    /\ Len(srv_pages) = 2
    /\ srv_pages[1] # <<>> /\ srv_pages[2] # <<>>
    /\ srv_pages[1] # srv_pages[2]
    /\ last.value = Some(ExpectedRecords)

\* C3: a results(reload=True) call that returns records leaves the
\* accumulated records equal to the records of the freshly pulled pages.
C3_ReloadReplaces ==
    (last.op = "results" /\ last.reload /\ last.out = "return"
        /\ last.value # Nothing)
      => q_results = Some(ExpectedRecords)

\* C4: after a results() call that was aborted by a non-200 page once
\* earlier pages had been accumulated, the next results() call that returns
\* records has pulled every page again from the first, and returns the
\* records of those pages only.
C4_PartialDiscarded ==
    [][(/\ last.op = "results" /\ last.out = "raise" /\ last.fail > 1
        /\ ncalls' = ncalls + 1
        /\ last'.op = "results" /\ last'.out = "return"
        /\ last'.value # Nothing)
         => /\ SelectSeq(last'.reqs, LAMBDA r : r.page # 0)
                 = PageRequests(q_url, Len(srv_pages))
            /\ last'.value = Some(ExpectedRecords)]_vars

\* C5: when the traversal has ended, a node whose fetch failed is no key of
\* the edge map, and a node reachable from the seed only through it was
\* never fetched and is neither a key of the edge map nor in the error list.
C5_FailedNodeOmitted ==
    ppc = "done" =>
      \A b \in Range(errors) :
         /\ b \notin DOMAIN edges
         /\ \A c \in OnlyThrough(b) :
              /\ c \notin Range(fetched)
              /\ c \notin DOMAIN edges
              /\ c \notin Range(errors)

\* C6: a URL whose authority differs from the seed's is never fetched, is
\* never a key of the edge map and never in the error list (nor is it the
\* current URL or in the frontier).
C6_CrossOriginNeverFetched ==
    \A u \in URLs :
       Netloc(u) # Netloc(Seed) =>
          /\ u \notin Range(fetched)
          /\ u \notin DOMAIN edges
          /\ u \notin Range(errors)
          /\ u \notin Range(urlq)
          /\ u # url

C6_Witness ==
    /\ ppc = "done"
    /\ \E k \in DOMAIN edges :
          \E u \in Range(edges[k]) : Netloc(u) # netloc

\* C7: a results() call on a query whose metadata has no result link
\* returns None without raising, asks for no result page and leaves the
\* accumulated results empty.
C7_NotYetAvailable ==
    (last.op = "results" /\ q_metadata # Nothing /\ ~q_metadata[1].result)
      => /\ last.out = "return"
         /\ last.value = Nothing
         /\ PagesAsked = <<>>
         /\ q_results = Nothing

C7_Witness ==
    /\ last.op = "results" /\ last.mstatus = 200
    /\ q_metadata # Nothing /\ ~q_metadata[1].result
    /\ last.out = "return" /\ last.value = Nothing

\* C8: the submission issues one POST. A non-200 response raises PTOError
\* with the status code and the body and leaves no query object; a 200
\* response stores the returned metadata and makes the returned link the
\* query's URL, which every later metadata GET asks for. No later call
\* issues a POST.
C8_SubmitOnce ==
    submitted # Nothing =>
      LET r == submitted[1]
          post == Request("POST", SubmitURL, 0)
      IN /\ last.op = "submit" => last.reqs = <<post>>
         /\ r.status # 200 =>
              /\ qst = "failed"
              /\ last.op = "submit" /\ last.out = "raise"
              /\ last.err = [type |-> "PTOError", status |-> r.status,
                             text |-> r.text]
              /\ q_metadata = Nothing
         /\ r.status = 200 =>
              /\ qst = "valid"
              /\ q_url = r.link
              /\ q_metadata # Nothing
              /\ q_metadata[1].link = r.link
              /\ last.op = "submit" => last.out = "return"
              /\ last.op # "submit" =>
                   \A i \in DOMAIN last.reqs :
                      /\ last.reqs[i].method = "GET"
                      /\ last.reqs[i].url = r.link

C8_Witness ==
    /\ submitted # Nothing /\ submitted[1].status = 200
    /\ last.op = "metadata" /\ last.reload
    /\ last.reqs = <<Request("GET", submitted[1].link, 0)>>

\* C9: a metadata() call whose GET answers with a non-200 status raises.
C9_MetadataFailureRaises ==
    (last.op = "metadata" /\ last.mstatus \notin {0, 200})
      => last.out = "raise"

\* C10: of two metadata(reload=False) calls in a row, the second issues no
\* request and returns what the first returned.
C10_CachedMetadata ==
    [][(/\ last.op = "metadata" /\ ~last.reload
        /\ ncalls' = ncalls + 1
        /\ last'.op = "metadata" /\ ~last'.reload)
         => /\ last'.reqs = <<>>
            /\ last'.value = last.value]_vars

\* ---- breadth-first depth in the link graph
RECURSIVE DepthFrom(_, _, _)
DepthFrom(u, S, k) ==
    IF u \in S THEN k
    ELSE LET T == S \cup {v \in URLs : \E w \in S : v \in Antecedents(w)}
         IN IF T = S THEN -1 ELSE DepthFrom(u, T, k + 1)

Depth(u) == DepthFrom(u, {Seed}, 0)

\* C14: when every fetch succeeds the traversal ends, whatever the link
\* graph: cycles, self-references, shared antecedents.
C14_Terminates == (ppc = "iterate") ~> (ppc = "done")

C14_Witness ==
    /\ ppc = "done"
    /\ \E u \in SameOrigin : u \in Antecedents(u)
    /\ \E u, v \in SameOrigin :
          u # v /\ u \in Antecedents(v) /\ v \in Antecedents(u)
    /\ Len(fetched) < FetchCap

\* C15: every URL is fetched at most once, and the frontier holds only
\* URLs not yet fetched.
C15_VisitedOnce ==
    /\ \A i, j \in DOMAIN fetched : fetched[i] = fetched[j] => i = j
    /\ \A u \in Range(urlq) : u \notin Range(fetched)

\* C17: when the traversal has ended, every fetch has succeeded and the seed
\* leads to URLs of its own authority only, the keys of the edge map are the
\* URLs the seed leads to that have an antecedent, and each key's value is
\* the _sources of that URL in order followed by its _analyzer.
C17_EdgeMap ==
    (ppc = "done"
        /\ \A u \in ReachFrom({Seed}, {}) : Netloc(u) = Netloc(Seed))
      => /\ DOMAIN edges =
              {u \in ReachFrom({Seed}, {}) :
                  links[u].sources # <<>> \/ links[u].analyzer # Nothing}
         /\ \A u \in DOMAIN edges :
              edges[u] = IF links[u].analyzer = Nothing
                         THEN links[u].sources
                         ELSE Append(links[u].sources, links[u].analyzer)

C17_Witness ==
    /\ ppc = "done"
    /\ links[<<"pto", "a">>].sources = <<<<"pto", "b">>>>
    /\ links[<<"pto", "b">>].analyzer = <<"pto", "c">>
    /\ DOMAIN edges = {<<"pto", "a">>, <<"pto", "b">>}
    /\ edges[<<"pto", "a">>] = <<<<"pto", "b">>>>
    /\ edges[<<"pto", "b">>] = <<<<"pto", "c">>>>

\* C18: the depth of the successively fetched URLs, counted from the seed
\* along derives-from links, never decreases.
C18_DepthMonotone ==
    \A i \in 1..(Len(fetched) - 1) :
       Depth(fetched[i]) <= Depth(fetched[i + 1])

\* C19 (as claimed): a cross-origin URL is no key of the edge map, in no
\* antecedent list of the edge map, not in the error list and not in the
\* frontier.
C19_CrossOriginNowhere ==
    \A u \in URLs :
       Netloc(u) # Netloc(Seed) =>
          /\ u \notin DOMAIN edges
          /\ \A k \in DOMAIN edges : u \notin Range(edges[k])
          /\ u \notin Range(errors)
          /\ u \notin Range(urlq)

\* C19 (amended): a cross-origin URL is no key of the edge map, not in the
\* error list and not in the frontier; it is in the antecedent list of
\* exactly the keys whose metadata names it, and so an endpoint of the
\* exported graph.
C19_CrossOriginOnlyInLists ==
    \A u \in URLs :
       Netloc(u) # Netloc(Seed) =>
          /\ u \notin DOMAIN edges
          /\ u \notin Range(errors)
          /\ u \notin Range(urlq)
          /\ \A k \in DOMAIN edges :
                (u \in Antecedents(k)) <=> (<<k, u>> \in AsNxGraph(edges))
          /\ \A g \in AsNxGraph(edges) : g[1] # u

C19_Witness ==
    /\ ppc = "done"
    /\ \E k \in DOMAIN edges : \E u \in CrossOrigin :
          <<k, u>> \in AsNxGraph(edges)

\* ---- the row at position k of the query's result, over all pages
RowAt(k) ==
    LET p == CHOOSE p \in 1..Len(srv_pages) :
                 PageStart(p) < k /\ k <= PageStart(p) + Len(srv_pages[p])
    IN srv_pages[p][k - PageStart(p)]

\* C12 (as claimed): the 7-element row [0, "s1", t0, t1, "/p", "c1", 5] of
\* an obs page decodes to one record with set_id "s1", path "/p", condition
\* "c1" and value 5.
C12_ReservedFirst ==
    (/\ last.op = "results" /\ last.fresh /\ last.fail = 0
     /\ srv_kind = "obs"
     /\ srv_pages = <<<<<<"0", "s1", "t0", "t1", "/p", "c1", "5">>>>>>)
      => /\ Len(last.value[1]) = 1
         /\ last.value[1][1].set_id = "s1"
         /\ last.value[1][1].path = "/p"
         /\ last.value[1][1].condition = "c1"
         /\ last.value[1][1].value = "5"

\* C12 (amended): every row of an obs page decodes to one record, whose
\* set_id, time_start, time_end, path, condition and value are the row's
\* first to sixth element; the row ["s1", t0, t1, "/p", "c1", 5] gives
\* set_id "s1", path "/p", condition "c1", value 5.
C12_FirstSixPositions ==
    (/\ last.op = "results" /\ last.fresh /\ last.fail = 0
     /\ srv_kind = "obs")
      => /\ last.value # Nothing
         /\ Len(last.value[1]) = TotalRows
         /\ \A k \in 1..TotalRows :
              last.value[1][k] =
                 [set_id |-> RowAt(k)[1], time_start |-> RowAt(k)[2],
                  time_end |-> RowAt(k)[3], path |-> RowAt(k)[4],
                  condition |-> RowAt(k)[5], value |-> RowAt(k)[6]]
         /\ srv_pages = <<<<<<"s1", "t0", "t1", "/p", "c1", "5">>>>>> =>
              last.value[1] =
                 <<[set_id |-> "s1", time_start |-> "t0", time_end |-> "t1",
                    path |-> "/p", condition |-> "c1", value |-> "5"]>>

C12_Witness ==
    /\ last.op = "results" /\ last.fresh /\ last.fail = 0
    /\ srv_kind = "obs"
    /\ srv_pages = <<<<<<"s1", "t0", "t1", "/p", "c1", "5">>>>>>
    /\ last.value # Nothing
    /\ Len(last.value[1]) = 1
    /\ last.value[1][1].set_id = "s1"
    /\ last.value[1][1].value = "5"

\* C16: a results(reload=False) call entered without accumulated results
\* asks the observatory for the query's metadata before it decides whether
\* results are available; so once the observatory holds the result link,
\* such a call whose requests all succeed returns the results.
C16_Revalidates ==
    (last.op = "results" /\ ~last.reload /\ last.fresh)
      => /\ \E i \in DOMAIN last.reqs :
               last.reqs[i] = Request("GET", q_url, 0)
         /\ (last.out = "return" /\ srv_done /\ last.mstatus = 200)
               => last.value # Nothing

\* ---- the query specification builder
\* C11: the group list never holds more than two tags; a grouping call made
\* on a spec with fewer than two tags returns the spec with the method's tag
\* appended behind the ones already there, and a grouping call made on a
\* spec with two tags raises (ValueError, at the call itself) and leaves the
\* spec as it was.
C11_GroupAtMostTwo ==
    /\ Len(qspec.group) <= 2
    /\ bcall.op \in DOMAIN GroupTag =>
        IF Len(bcall.pre.group) < 2
        THEN /\ bcall.ret = "self"
             /\ qspec = [bcall.pre EXCEPT
                            !.group = Append(@, GroupTag[bcall.op])]
        ELSE /\ bcall.ret = "raise"
             /\ bcall.err = OtherError("ValueError")
             /\ qspec = bcall.pre

\* a third grouping call was made and raised
C11_Witness ==
    /\ bcall.op \in DOMAIN GroupTag
    /\ Len(bcall.pre.group) = 2
    /\ bcall.pre.group[1] # bcall.pre.group[2]
    /\ bcall.ret = "raise"

\* C13: the parameter map computed from any spec has the keys time_start and
\* time_end, holding the spec's window (None when none was set), has no
\* other key than those of the non-empty collections, and computing it
\* leaves the spec unchanged.
C13_ParamsOmitEmpty ==
    bcall.op = "_params" =>
        LET p == bcall.out[1]
            q == bcall.pre
        IN /\ {"time_start", "time_end"} \subseteq DOMAIN p
           /\ p["time_start"] = q.time_start
           /\ p["time_end"] = q.time_end
           /\ DOMAIN p \subseteq {"time_start", "time_end"}
                   \cup {c \in CollectionKeys : Backing(q, c) # <<>>}
           /\ qspec = q

\* the parameters of a spec without a time window, with an empty and a
\* non-empty collection, were computed
C13_Witness ==
    /\ bcall.op = "_params"
    /\ bcall.pre.time_start = Nothing
    /\ bcall.pre.time_end = Nothing
    /\ bcall.pre.on_path = <<>>
    /\ bcall.pre.group # <<>>
    /\ bcall.pre.set_ids = <<>>

\* C20: the parameter map holds every non-empty collection of the spec in
\* append order: the six filter, group and option collections under their
\* keys, and the canonicalized set identifiers (42 as "2a", the URL
\* https://x/obs/2a as "2a") under a key of their own.
C20_AllFieldsCarried ==
    /\ bcall.op = "set_id" /\ bcall.args = <<PyInt(42)>> =>
           qspec.set_ids = Append(bcall.pre.set_ids, <<"2", "a">>)
    /\ bcall.op = "set_id" /\ bcall.args = <<PyStr(Url2a)>> =>
           qspec.set_ids = Append(bcall.pre.set_ids, <<"2", "a">>)
    /\ bcall.op = "_params" =>
        LET p == bcall.out[1]
            q == bcall.pre
        IN /\ \A c \in CollectionKeys :
                  Backing(q, c) # <<>> =>
                      c \in DOMAIN p /\ p[c] = Backing(q, c)
           /\ q.set_ids # <<>> =>
                  \E k \in DOMAIN p \ ({"time_start", "time_end"}
                                       \cup CollectionKeys) :
                      p[k] = q.set_ids

====
